---- MODULE Spec2Model ----
(***************************************************************************)
(* A model of the what3words client library (erwinmintiens/w3w-rust).      *)
(*                                                                         *)
(* Strings are sequences of atoms.  The separators "," "&" "=" "?" the     *)
(* sign "-", the point "." and the decimal digits are atoms of their own,  *)
(* so that number formatting, joins and query-string assembly are modelled *)
(* character by character where it matters; any other run of characters    *)
(* (a host, an API key, a language code, an endpoint name) is one atom.    *)
(*                                                                         *)
(* An f64 is modelled as a fixed-point number with FracDigits decimal      *)
(* digits, held as the integer  value * 10^FracDigits.                     *)
(***************************************************************************)
EXTENDS Integers, Sequences, FiniteSets, TLC

VARIABLES
  api_key,   \* W3WClient.api_key
  host,      \* W3WClient.host
  pc,        \* where the caller is: "idle", "waiting" (inside a client method,
             \* blocked in send()), "returned", or "aborted" (the method panicked)
  method,    \* the client method invoked last
  args,      \* its required argument, while the call runs
  options,   \* its options bag, while the call runs
  inflight,  \* the URL of the GET that is being sent, or None
  gets,      \* the GETs issued by the invocation so far
  response,  \* what send() gave back to the invocation, or None
  result,    \* what the method returned to its caller
  shape,     \* the geometry value to_string is applied to
  printed    \* what to_string returned

vars == <<api_key, host, pc, method, args, options, inflight, gets, response,
          result, shape, printed>>

(***************************************************************************)
(* Bounds of the model.                                                    *)
(***************************************************************************)
\* decimal digits kept after the point of an f64
FracDigits == 5
\* longest coordinate list of a Polygon whose to_string is applied
MaxPolygon == 4
\* longest country list of an autosuggest call
MaxCountries == 2

Scale == 10 ^ FracDigits

\* the f64 whose decimal expansion is i.ddddd (five digits d given as 0..99999)
Dec(i, d) == i * Scale + d * (Scale \div 100000)

(***************************************************************************)
(* Option<T>: None is the empty sequence, Some(v) the sequence <<v>>.      *)
(***************************************************************************)
None == <<>>

Some(v) == <<v>>

IsSome(o) == o # <<>>

(***************************************************************************)
(* format!("{}", x) for an f64 (std's Display): an optional sign, the      *)
(* integer digits, and, only when the fraction is not zero, a point and    *)
(* the fraction digits without trailing zeros.  51.0 prints as "51".       *)
(***************************************************************************)
DigitChar(d) ==
  CASE d = 0 -> "0" [] d = 1 -> "1" [] d = 2 -> "2" [] d = 3 -> "3"
    [] d = 4 -> "4" [] d = 5 -> "5" [] d = 6 -> "6" [] d = 7 -> "7"
    [] d = 8 -> "8" [] d = 9 -> "9"

RECURSIVE NatStr(_)
NatStr(n) ==
  IF n < 10 THEN <<DigitChar(n)>>
  ELSE NatStr(n \div 10) \o <<DigitChar(n % 10)>>

\* the w low digits of f, zero padded on the left
RECURSIVE PadStr(_, _)
PadStr(f, w) ==
  IF w = 0 THEN <<>> ELSE PadStr(f \div 10, w - 1) \o <<DigitChar(f % 10)>>

\* the fraction f (0 < f < 10^w) without its trailing zeros
RECURSIVE FracStr(_, _)
FracStr(f, w) ==
  IF f % 10 = 0 THEN FracStr(f \div 10, w - 1) ELSE PadStr(f, w)

FmtF64(x) ==
  LET a == IF x < 0 THEN 0 - x ELSE x
      f == a % Scale
  IN  (IF x < 0 THEN <<"-">> ELSE <<>>)
        \o NatStr(a \div Scale)
        \o (IF f = 0 THEN <<>> ELSE <<".">> \o FracStr(f, FracDigits))

\* format!("{}", b) for a bool
FmtBool(b) == IF b THEN <<"true">> ELSE <<"false">>

(***************************************************************************)
(* The geometry value types and their to_string.                           *)
(***************************************************************************)
Coordinate(lat, lng) == [latitude |-> lat, longitude |-> lng]

Circle(c, r) == [centerpoint |-> c, radius |-> r]

BoundingBox(sw, ne) == [south_west |-> sw, north_east |-> ne]

Polygon(cs) == [coordinates |-> cs]

Coordinate_swapped(self) ==
  FmtF64(self.longitude) \o <<",">> \o FmtF64(self.latitude)

Coordinate_to_string(self) ==
  FmtF64(self.latitude) \o <<",">> \o FmtF64(self.longitude)

Circle_radius_first(self) ==
  FmtF64(self.radius) \o <<",">> \o Coordinate_to_string(self.centerpoint)

Circle_to_string(self) ==
  Coordinate_to_string(self.centerpoint) \o <<",">> \o FmtF64(self.radius)

BoundingBox_north_east_first(self) ==
  Coordinate_to_string(self.north_east) \o <<",">>
    \o Coordinate_to_string(self.south_west)

BoundingBox_to_string(self) ==
  Coordinate_to_string(self.south_west) \o <<",">>
    \o Coordinate_to_string(self.north_east)

\* the for loop of Polygon::to_string: every item followed by a comma
RECURSIVE PolygonItems(_)
PolygonItems(cs) ==
  IF cs = <<>> THEN <<>>
  ELSE Coordinate_to_string(Head(cs)) \o <<",">> \o PolygonItems(Tail(cs))

StrOk(s) == [kind |-> "Ok", str |-> s]

StrPanic == [kind |-> "Panic", str |-> <<>>]

NotPrinted == [kind |-> "None", str |-> <<>>]

Polygon_not_closed(self) ==
  IF self.coordinates = <<>> THEN StrPanic
  ELSE StrOk(PolygonItems(self.coordinates)
               \o Coordinate_to_string(
                    self.coordinates[Len(self.coordinates)]))

Polygon_size_checked(self) ==
  IF Len(self.coordinates) < 3 \/ Len(self.coordinates) > 25 THEN StrPanic
  ELSE StrOk(PolygonItems(self.coordinates)
               \o Coordinate_to_string(self.coordinates[1]))

\* self.coordinates[0] panics (index out of bounds) on an empty list
Polygon_to_string(self) ==
  IF self.coordinates = <<>> THEN StrPanic
  ELSE StrOk(PolygonItems(self.coordinates)
               \o Coordinate_to_string(self.coordinates[1]))

(***************************************************************************)
(* Inputs.  The coordinates of tests/integration_tests.rs and of the doc   *)
(* examples of lib.rs, and numbers that exercise every shape of an f64's   *)
(* decimal form (negative, integral, zero, fraction with inner zeros).     *)
(***************************************************************************)
COORDINATE1 == Coordinate(Dec(50, 12345), 0 - Dec(3, 98765))

COORDINATE2 == Coordinate(Dec(51, 0), 0 - Dec(3, 0))

COORDINATE3 == Coordinate(Dec(56, 22222), Dec(1, 11122))

COORDINATE4 == Coordinate(Dec(57, 0), Dec(2, 0))

TestCoordinates == {COORDINATE1, COORDINATE2, COORDINATE3, COORDINATE4}

F64s ==
  { Dec(50, 12345), 0 - Dec(3, 98765), Dec(51, 0), 0 - Dec(3, 0), 0,
    Dec(0, 50000), 0 - Dec(0, 34300), Dec(178, 20000), Dec(10, 100) }

Coordinates == { Coordinate(lat, lng) : lat \in F64s, lng \in F64s }

Radii == { Dec(12, 30000), Dec(35, 0), 0, Dec(0, 50000) }

Circles == { Circle(c, r) : c \in TestCoordinates, r \in Radii }

BoxCorners ==
  TestCoordinates
    \cup { Coordinate(0 - Dec(4, 0), Dec(178, 20000)),
           Coordinate(Dec(22, 0), Dec(195, 40000)) }

BoundingBoxes == { BoundingBox(sw, ne) : sw \in BoxCorners, ne \in BoxCorners }

\* the number of coordinates the what3words API accepts in a polygon
MaxApiPolygon == 25

\* a polygon of one coordinate more than the API accepts
LongPolygon ==
  Polygon([i \in 1..(MaxApiPolygon + 1) |->
             CASE i % 4 = 1 -> COORDINATE1 [] i % 4 = 2 -> COORDINATE2
               [] i % 4 = 3 -> COORDINATE3 [] OTHER -> COORDINATE4])

\* the struct does not enforce the documented 3..25 coordinates
Polygons ==
  { Polygon(cs) :
      cs \in UNION { [1..n -> TestCoordinates] : n \in 0..MaxPolygon } }
    \cup { LongPolygon }

(***************************************************************************)
(* The geometry specification: a value is drawn, to_string is applied.     *)
(***************************************************************************)
Shape(k, v) == [kind |-> k, val |-> v]

NoShape == Shape("None", <<>>)

CoordinateToString ==
  /\ shape.kind = "Coordinate"
  /\ printed = NotPrinted
  /\ printed' = StrOk(Coordinate_to_string(shape.val))
  /\ UNCHANGED <<api_key, host, pc, method, args, options, inflight, gets,
                 response, result, shape>>

CircleToString ==
  /\ shape.kind = "Circle"
  /\ printed = NotPrinted
  /\ printed' = StrOk(Circle_to_string(shape.val))
  /\ UNCHANGED <<api_key, host, pc, method, args, options, inflight, gets,
                 response, result, shape>>

BoundingBoxToString ==
  /\ shape.kind = "BoundingBox"
  /\ printed = NotPrinted
  /\ printed' = StrOk(BoundingBox_to_string(shape.val))
  /\ UNCHANGED <<api_key, host, pc, method, args, options, inflight, gets,
                 response, result, shape>>

PolygonToString ==
  /\ shape.kind = "Polygon"
  /\ printed = NotPrinted
  /\ printed' = Polygon_to_string(shape.val)
  /\ UNCHANGED <<api_key, host, pc, method, args, options, inflight, gets,
                 response, result, shape>>

(***************************************************************************)
(* Reading a serialization back: the fields between commas, and the value  *)
(* of a decimal numeral.  Used by the properties only.                     *)
(***************************************************************************)
DigitChars == {"0", "1", "2", "3", "4", "5", "6", "7", "8", "9"}

DigitVal(ch) ==
  CASE ch = "0" -> 0 [] ch = "1" -> 1 [] ch = "2" -> 2 [] ch = "3" -> 3
    [] ch = "4" -> 4 [] ch = "5" -> 5 [] ch = "6" -> 6 [] ch = "7" -> 7
    [] ch = "8" -> 8 [] ch = "9" -> 9

\* the index of the first sep in s, or 0
FirstIdx(s, sep) ==
  IF \E i \in 1..Len(s) : s[i] = sep
  THEN CHOOSE i \in 1..Len(s) :
         s[i] = sep /\ \A j \in 1..(i - 1) : s[j] # sep
  ELSE 0

RECURSIVE SplitOn(_, _)
SplitOn(s, sep) ==
  LET i == FirstIdx(s, sep)
  IN  IF i = 0 THEN <<s>>
      ELSE <<SubSeq(s, 1, i - 1)>> \o SplitOn(SubSeq(s, i + 1, Len(s)), sep)

AllDigits(s) == Len(s) > 0 /\ \A i \in 1..Len(s) : s[i] \in DigitChars

Unsigned(f) == IF f # <<>> /\ f[1] = "-" THEN Tail(f) ELSE f

IntPart(f) ==
  LET u == Unsigned(f)
      d == FirstIdx(u, ".")
  IN  IF d = 0 THEN u ELSE SubSeq(u, 1, d - 1)

FracPart(f) ==
  LET u == Unsigned(f)
      d == FirstIdx(u, ".")
  IN  IF d = 0 THEN <<>> ELSE SubSeq(u, d + 1, Len(u))

\* f is a decimal numeral: [-]digits[.digits]
IsNumeral(f) ==
  /\ AllDigits(IntPart(f))
  /\ \/ FirstIdx(Unsigned(f), ".") = 0
     \/ AllDigits(FracPart(f)) /\ Len(FracPart(f)) <= FracDigits

RECURSIVE NatVal(_)
NatVal(s) ==
  IF s = <<>> THEN 0
  ELSE NatVal(SubSeq(s, 1, Len(s) - 1)) * 10 + DigitVal(s[Len(s)])

\* the f64 a numeral denotes
NumVal(f) ==
  LET v == NatVal(IntPart(f)) * Scale
             + NatVal(FracPart(f)) * (10 ^ (FracDigits - Len(FracPart(f))))
  IN  IF f[1] = "-" THEN 0 - v ELSE v

\* fields is a sequence of numerals denoting the numbers of vals, in order
ReadsAs(fields, vals) ==
  /\ Len(fields) = Len(vals)
  /\ \A i \in 1..Len(fields) :
       IsNumeral(fields[i]) /\ NumVal(fields[i]) = vals[i]

LatLng(c) == <<c.latitude, c.longitude>>

RECURSIVE LatLngs(_)
LatLngs(cs) ==
  IF cs = <<>> THEN <<>> ELSE LatLng(Head(cs)) \o LatLngs(Tail(cs))

(***************************************************************************)
(* The client: configuration, Result values, JSON values.                  *)
(***************************************************************************)
W3WHOST == <<"https://api.what3words.com/v3">>

W3WClient_new_without_key(key) == [api_key |-> <<"">>, host |-> W3WHOST]

W3WClient_new(key) == [api_key |-> key, host |-> W3WHOST]

\* &self of a method call
Self == [api_key |-> api_key, host |-> host]

Ok(v) == [kind |-> "Ok", val |-> v]

Err(v) == [kind |-> "Err", val |-> v]

Panic(msg) == [kind |-> "Panic", val |-> msg]

NoResult == [kind |-> "None", val |-> <<>>]

\* serde_json::Value
JNull == [t |-> "null"]

JBool(b) == [t |-> "bool", b |-> b]

JStr(s) == [t |-> "string", s |-> s]

\* a number; float tells an f64 from an integer
JNum(n, float) == [t |-> "number", n |-> n, float |-> float]

JObj(fields) == [t |-> "object", f |-> fields]

\* value[key]: Null unless value is an object that has the key
Index(value, key) ==
  IF value.t = "object" /\ key \in DOMAIN value.f THEN value.f[key] ELSE JNull

as_f64(value) == IF value.t = "number" THEN Some(value.n) ELSE None

\* Value's Display (compact JSON) of a scalar
Value_to_string(value) ==
  CASE value.t = "null" -> <<"null">>
    [] value.t = "bool" -> FmtBool(value.b)
    [] value.t = "string" -> <<"\"">> \o value.s \o <<"\"">>
    [] value.t = "number" ->
         FmtF64(value.n)
           \o (IF value.float /\ value.n % Scale = 0 THEN <<".", "0">>
               ELSE <<>>)

\* a response: its status code and its body, which is JSON text or is not
Response(status, body) == [status |-> status, body |-> body]

JsonBody(value) == [valid |-> TRUE, json |-> value]

InvalidBody == [valid |-> FALSE, json |-> JNull]

(***************************************************************************)
(* The private helpers of lib.rs.                                          *)
(***************************************************************************)
parse_url_without_ampersand(url, keyword, value) ==
  url \o <<keyword, "=">> \o value

parse_url(url, keyword, value) == url \o <<"&", keyword, "=">> \o value

push_always(url, keyword, opt) ==
  parse_url(url, keyword, IF IsSome(opt) THEN opt[1] ELSE <<>>)

\* if let Some(v) = options.field { url = parse_url(url, keyword, v); }
push_if_some(url, keyword, opt) ==
  IF IsSome(opt) THEN parse_url(url, keyword, opt[1]) ELSE url

is_client_error(status) == 400 <= status /\ status < 500

is_server_error(status) == 500 <= status /\ status < 600

check_status_code_client_only(resp) ==
  IF is_client_error(resp.status) THEN Err(resp) ELSE Ok(resp)

check_status_code(resp) ==
  IF is_client_error(resp.status) \/ is_server_error(resp.status)
  THEN Err(resp)
  ELSE Ok(resp)

\* the rest of get_request once send() has given sent back:
\* resp.unwrap() panics on a transport error
get_request(sent) ==
  IF sent.kind = "Err"
  THEN Panic("called Result::unwrap() on an Err value")
  ELSE check_status_code(sent.val)

\* resp? hands an Err to the caller; .json().expect(..) panics on a body
\* that is not JSON
get_json(resp) ==
  IF resp.kind # "Ok" THEN resp
  ELSE IF ~resp.val.body.valid
       THEN Panic("An error occurred while extracting JSON from response")
       ELSE Ok(resp.val.body.json)

(***************************************************************************)
(* The options bags.                                                       *)
(***************************************************************************)
ConvertTo3WAOptions_default ==
  [language |-> None, format |-> None, locale |-> None]

ConvertToCoordinatesOptions_default == [format |-> None, locale |-> None]

\* lib.rs reads the field `countries` (a list); options.rs declares `country`
AutoSuggestOptions_default ==
  [focus_coordinates |-> None, circle |-> None, countries |-> None,
   bounding_box |-> None, polygon |-> None, language |-> None,
   prefer_land |-> None, locale |-> None]

GridSectionOptions_default == [format |-> None]

(***************************************************************************)
(* URL assembly of the endpoint methods, up to the call of get_request.    *)
(***************************************************************************)
convert_to_3wa_url_format_first(self, coordinates, opts) ==
  LET u0 == self.host \o <<"/convert-to-3wa", "?", "key", "=">>
              \o self.api_key \o <<"&", "coordinates", "=">>
              \o Coordinate_to_string(coordinates)
      u1 == push_if_some(u0, "format", opts.format)
      u2 == push_if_some(u1, "language", opts.language)
  IN  push_if_some(u2, "locale", opts.locale)

convert_to_3wa_url(self, coordinates, opts) ==
  LET u0 == self.host \o <<"/convert-to-3wa", "?", "key", "=">>
              \o self.api_key \o <<"&", "coordinates", "=">>
              \o Coordinate_to_string(coordinates)
      u1 == push_if_some(u0, "language", opts.language)
      u2 == push_if_some(u1, "format", opts.format)
  IN  push_if_some(u2, "locale", opts.locale)

convert_to_coordinates_url(self, three_words, opts) ==
  LET u0 == self.host \o <<"/convert-to-coordinates", "?", "words", "=">>
              \o three_words \o <<"&", "key", "=">> \o self.api_key
      u1 == push_if_some(u0, "format", opts.format)
  IN  push_if_some(u1, "locale", opts.locale)

available_languages_url(self) ==
  self.host \o <<"/available-languages", "?", "key", "=">> \o self.api_key

\* the for loop over the countries: each one followed by a comma
RECURSIVE push_countries(_)
push_countries(cs) ==
  IF cs = <<>> THEN <<>>
  ELSE Head(cs) \o <<",">> \o push_countries(Tail(cs))

pop_nothing(str) == str

\* String::pop: drops the last character, if there is one
pop(str) == IF str = <<>> THEN str ELSE SubSeq(str, 1, Len(str) - 1)

\* the value of an option after its conversion to a string
MapSome(opt, str) == IF IsSome(opt) THEN Some(str) ELSE None

\* StrPanic when Polygon::to_string panics, else the URL
autosuggest_url(self, input, opts) ==
  LET poly == IF IsSome(opts.polygon) THEN Polygon_to_string(opts.polygon[1])
              ELSE StrOk(<<>>)
      u0 == self.host \o <<"/autosuggest", "?", "key", "=">> \o self.api_key
              \o <<"&", "input", "=">> \o input
      u1 == push_if_some(u0, "focus",
              MapSome(opts.focus_coordinates,
                      Coordinate_to_string(opts.focus_coordinates[1])))
      u2 == push_if_some(u1, "clip-to-circle",
              MapSome(opts.circle, Circle_to_string(opts.circle[1])))
      u3 == push_if_some(u2, "clip-to-country",
              MapSome(opts.countries, pop(push_countries(opts.countries[1]))))
      u4 == push_if_some(u3, "clip-to-bounding-box",
              MapSome(opts.bounding_box,
                      BoundingBox_to_string(opts.bounding_box[1])))
      u5 == push_if_some(u4, "clip-to-polygon",
              MapSome(opts.polygon, poly.str))
      u6 == push_if_some(u5, "language", opts.language)
      u7 == push_if_some(u6, "prefer-land",
              MapSome(opts.prefer_land, FmtBool(opts.prefer_land[1])))
      u8 == push_if_some(u7, "locale", opts.locale)
  IN  IF poly.kind = "Panic" THEN StrPanic ELSE StrOk(u8)

grid_section_url(self, bounding_box, opts) ==
  LET u0 == self.host \o <<"/grid-section", "?", "bounding-box", "=">>
              \o BoundingBox_to_string(bounding_box)
              \o <<"&", "key", "=">> \o self.api_key
  IN  push_if_some(u0, "format", opts.format)

(***************************************************************************)
(* What the methods return once send() has given sent back.                *)
(***************************************************************************)
\* let resp = self.get_request(url)?; Ok(resp)
convert_to_3wa_ret(sent) ==
  LET resp == get_request(sent)
  IN  IF resp.kind = "Ok" THEN Ok(resp.val) ELSE resp

convert_to_3wa_json_ret(sent) == get_json(convert_to_3wa_ret(sent))

convert_to_3wa_string_ret(sent) ==
  LET json == convert_to_3wa_json_ret(sent)
  IN  IF json.kind # "Ok" THEN json
      ELSE Ok(Value_to_string(Index(json.val, "words")))

convert_to_coordinates_ret(sent) ==
  LET resp == get_request(sent)
  IN  IF resp.kind = "Ok" THEN Ok(resp.val) ELSE resp

convert_to_coordinates_json_ret(sent) ==
  get_json(convert_to_coordinates_ret(sent))

convert_to_coordinates_and_get_coordinate_ret(sent) ==
  LET json == convert_to_coordinates_json_ret(sent)
      latitude == as_f64(Index(Index(json.val, "coordinates"), "lat"))
      longitude == as_f64(Index(Index(json.val, "coordinates"), "lng"))
  IN  IF json.kind # "Ok" THEN json
      ELSE IF latitude = None
           THEN Panic("Failed to parse JSON latitude to f64")
           ELSE IF longitude = None
                THEN Panic("Failed to parse JSON longitude to f64")
                ELSE Ok(Coordinate(latitude[1], longitude[1]))

available_languages_ret(sent) == get_request(sent)

available_languages_json_ret(sent) == get_json(available_languages_ret(sent))

autosuggest_ret(sent) ==
  LET resp == get_request(sent)
  IN  IF resp.kind = "Ok" THEN Ok(resp.val) ELSE resp

autosuggest_json_ret(sent) == get_json(autosuggest_ret(sent))

grid_section_ret(sent) ==
  LET resp == get_request(sent)
  IN  IF resp.kind = "Ok" THEN Ok(resp.val) ELSE resp

grid_section_json_ret(sent) == get_json(grid_section_ret(sent))

\* the return value of method m
Return(m, sent) ==
  CASE m = "convert_to_3wa" -> convert_to_3wa_ret(sent)
    [] m = "convert_to_3wa_json" -> convert_to_3wa_json_ret(sent)
    [] m = "convert_to_3wa_string" -> convert_to_3wa_string_ret(sent)
    [] m = "convert_to_coordinates" -> convert_to_coordinates_ret(sent)
    [] m = "convert_to_coordinates_json" ->
         convert_to_coordinates_json_ret(sent)
    [] m = "convert_to_coordinates_and_get_coordinate" ->
         convert_to_coordinates_and_get_coordinate_ret(sent)
    [] m = "available_languages" -> available_languages_ret(sent)
    [] m = "available_languages_json" -> available_languages_json_ret(sent)
    [] m = "autosuggest" -> autosuggest_ret(sent)
    [] m = "autosuggest_json" -> autosuggest_json_ret(sent)
    [] m = "grid_section" -> grid_section_ret(sent)
    [] m = "grid_section_json" -> grid_section_json_ret(sent)

(***************************************************************************)
(* Inputs of the client methods.                                           *)
(***************************************************************************)
ApiKeys == { <<"mock-api-key">>, <<"your_api_key">> }

Hosts == { W3WHOST, <<"https://test.com">> }

OptLanguages == { None, Some(<<"nl">>) }

OptFormats == { None, Some(<<"geojson">>) }

OptLocales == { None, Some(<<"mn_la">>) }

ConvertTo3WAOptionsSet ==
  [language : OptLanguages, format : OptFormats, locale : OptLocales]

ConvertToCoordinatesOptionsSet == [format : OptFormats, locale : OptLocales]

GridSectionOptionsSet == [format : OptFormats]

CountryLists ==
  UNION { [1..n -> { <<"GB">>, <<"BE">> }] : n \in 0..MaxCountries }

AutoSuggestOptionsSet ==
  [focus_coordinates : { None, Some(COORDINATE2) },
   circle : { None, Some(Circle(COORDINATE2, Dec(35, 0))) },
   countries : { None } \cup { Some(cs) : cs \in CountryLists },
   bounding_box : { None, Some(BoundingBox(COORDINATE1, COORDINATE4)) },
   polygon : { None, Some(Polygon(<<>>)),
               Some(Polygon(<<COORDINATE1, COORDINATE2, COORDINATE3>>)) },
   language : OptLanguages,
   prefer_land : { None, Some(TRUE), Some(FALSE) },
   locale : OptLocales]

ThreeWords == { <<"filled.count.soap">>, <<"fight.offer.airbag">> }

Inputs == { <<"fight.offer.ai">> }

GridBoxes ==
  { BoundingBox(COORDINATE1, COORDINATE2),
    BoundingBox(Coordinate(0 - Dec(4, 0), Dec(178, 20000)),
                Coordinate(Dec(22, 0), Dec(195, 40000))) }

\* the bodies a response may carry
Bodies ==
  << InvalidBody,
     JsonBody(JNull),
     JsonBody(JObj([error |-> JStr(<<"BadWords">>)])),
     JsonBody(JObj([words |-> JStr(<<"filled.count.soap">>)])),
     JsonBody(JObj([words |-> JNum(Dec(42, 0), FALSE)])),
     JsonBody(JObj([coordinates |->
        JObj([lat |-> JNum(Dec(51, 52125), TRUE),
              lng |-> JNum(0 - Dec(0, 20359), TRUE)])])),
     JsonBody(JObj([coordinates |->
        JObj([lat |-> JStr(<<"51.52125">>),
              lng |-> JNum(0 - Dec(0, 20359), TRUE)])])),
     JsonBody(JObj([coordinates |->
        JObj([lat |-> JNum(Dec(51, 0), FALSE)])])) >>

\* status codes around every boundary of the classes 1xx .. 5xx, and beyond
OtherStatuses == <<101, 299, 304, 399, 400, 404, 499, 500, 599, 600>>

\* what send() may give back: a transport error, a 200 with any body, any
\* other status with a body that is not JSON or with a JSON error body
SendResults ==
  <<Err("transport error")>>
    \o [b \in 1..Len(Bodies) |-> Ok(Response(200, Bodies[b]))]
    \o [i \in 1..Len(OtherStatuses) |->
          Ok(Response(OtherStatuses[i], Bodies[1]))]
    \o [i \in 1..Len(OtherStatuses) |->
          Ok(Response(OtherStatuses[i], Bodies[3]))]

(***************************************************************************)
(* The client as a state machine.  A method call runs in two steps: it     *)
(* assembles the URL and sends the GET (the caller then waits in send()),  *)
(* and, when send() gives its result back, it runs to its return.          *)
(***************************************************************************)
\* the state when W3WClient::new(key) returns
Init ==
  /\ \E key \in ApiKeys :
       /\ args = <<key>>
       /\ api_key = W3WClient_new(key).api_key
       /\ host = W3WClient_new(key).host
  /\ pc = "idle"
  /\ method = "new"
  /\ options = <<>>
  /\ inflight = None
  /\ gets = 0
  /\ response = None
  /\ result = NoResult
  /\ shape = NoShape
  /\ printed = NotPrinted

\* self.client.get(url).send()
Send(url) ==
  /\ inflight' = Some(url)
  /\ gets' = gets + 1

Invoke_resetting_host(m, a, o, built) ==
  /\ pc = "idle"
  /\ method' = m
  /\ args' = a
  /\ options' = o
  /\ host' = W3WHOST
  /\ IF built.kind = "Panic"
     THEN /\ pc' = "aborted"
          /\ result' = Panic("index out of bounds")
          /\ UNCHANGED <<inflight, gets>>
     ELSE /\ pc' = "waiting"
          /\ result' = NoResult
          /\ Send(built.str)
  /\ UNCHANGED <<api_key, response, shape, printed>>

\* method m is called with arguments a and options o; built is its URL, or
\* StrPanic when the assembly of the URL panics
Invoke(m, a, o, built) ==
  /\ pc = "idle"
  /\ method' = m
  /\ args' = a
  /\ options' = o
  /\ IF built.kind = "Panic"
     THEN /\ pc' = "aborted"
          /\ result' = Panic("index out of bounds")
          /\ UNCHANGED <<inflight, gets>>
     ELSE /\ pc' = "waiting"
          /\ result' = NoResult
          /\ Send(built.str)
  /\ UNCHANGED <<api_key, host, response, shape, printed>>

convert_to_3wa ==
  \E coordinates \in TestCoordinates, opts \in ConvertTo3WAOptionsSet :
    Invoke("convert_to_3wa", <<coordinates>>, opts,
           StrOk(convert_to_3wa_url(Self, coordinates, opts)))

convert_to_3wa_json ==
  \E coordinates \in TestCoordinates, opts \in ConvertTo3WAOptionsSet :
    Invoke("convert_to_3wa_json", <<coordinates>>, opts,
           StrOk(convert_to_3wa_url(Self, coordinates, opts)))

convert_to_3wa_string ==
  \E coordinates \in TestCoordinates, opts \in ConvertTo3WAOptionsSet :
    Invoke("convert_to_3wa_string", <<coordinates>>, opts,
           StrOk(convert_to_3wa_url(Self, coordinates, opts)))

convert_to_coordinates ==
  \E three_words \in ThreeWords, opts \in ConvertToCoordinatesOptionsSet :
    Invoke("convert_to_coordinates", <<three_words>>, opts,
           StrOk(convert_to_coordinates_url(Self, three_words, opts)))

convert_to_coordinates_json ==
  \E three_words \in ThreeWords, opts \in ConvertToCoordinatesOptionsSet :
    Invoke("convert_to_coordinates_json", <<three_words>>, opts,
           StrOk(convert_to_coordinates_url(Self, three_words, opts)))

convert_to_coordinates_and_get_coordinate ==
  \E three_words \in ThreeWords, opts \in ConvertToCoordinatesOptionsSet :
    Invoke("convert_to_coordinates_and_get_coordinate", <<three_words>>, opts,
           StrOk(convert_to_coordinates_url(Self, three_words, opts)))

available_languages ==
  Invoke("available_languages", <<>>, <<>>,
         StrOk(available_languages_url(Self)))

available_languages_json ==
  Invoke("available_languages_json", <<>>, <<>>,
         StrOk(available_languages_url(Self)))

autosuggest ==
  \E input \in Inputs, opts \in AutoSuggestOptionsSet :
    Invoke("autosuggest", <<input>>, opts, autosuggest_url(Self, input, opts))

autosuggest_json ==
  \E input \in Inputs, opts \in AutoSuggestOptionsSet :
    Invoke("autosuggest_json", <<input>>, opts,
           autosuggest_url(Self, input, opts))

grid_section ==
  \E bounding_box \in GridBoxes, opts \in GridSectionOptionsSet :
    Invoke("grid_section", <<bounding_box>>, opts,
           StrOk(grid_section_url(Self, bounding_box, opts)))

grid_section_json ==
  \E bounding_box \in GridBoxes, opts \in GridSectionOptionsSet :
    Invoke("grid_section_json", <<bounding_box>>, opts,
           StrOk(grid_section_url(Self, bounding_box, opts)))

\* send() gives its result back and the method runs to its return (or
\* panics); its arguments go out of scope
Respond ==
  /\ pc = "waiting"
  /\ \E i \in 1..Len(SendResults) :
       /\ response' = Some(SendResults[i])
       /\ result' = Return(method, SendResults[i])
       /\ pc' = IF Return(method, SendResults[i]).kind = "Panic"
                THEN "aborted" ELSE "returned"
  /\ inflight' = None
  /\ args' = <<>>
  /\ options' = <<>>
  /\ UNCHANGED <<api_key, host, method, gets, shape, printed>>

\* the caller is done with the returned value
DropResult ==
  /\ pc = "returned"
  /\ pc' = "idle"
  /\ method' = "none"
  /\ gets' = 0
  /\ response' = None
  /\ result' = NoResult
  /\ UNCHANGED <<api_key, host, args, options, inflight, shape, printed>>

\* host is a public field: w3_client.host = String::from(..)
SetHost ==
  /\ pc = "idle"
  /\ \E h \in Hosts : host' = h
  /\ UNCHANGED <<api_key, pc, method, args, options, inflight, gets, response,
                 result, shape, printed>>

Next ==
  \/ convert_to_3wa
  \/ convert_to_3wa_json
  \/ convert_to_3wa_string
  \/ convert_to_coordinates
  \/ convert_to_coordinates_json
  \/ convert_to_coordinates_and_get_coordinate
  \/ available_languages
  \/ available_languages_json
  \/ autosuggest
  \/ autosuggest_json
  \/ grid_section
  \/ grid_section_json
  \/ Respond
  \/ DropResult
  \/ SetHost

Spec == Init /\ [][Next]_vars

(***************************************************************************)
(* The geometry specification.                                             *)
(***************************************************************************)
InitGeo ==
  /\ api_key = <<"mock-api-key">>
  /\ host = W3WClient_new(api_key).host
  /\ pc = "idle"
  /\ method = "none"
  /\ args = <<>>
  /\ options = <<>>
  /\ inflight = None
  /\ gets = 0
  /\ response = None
  /\ result = NoResult
  /\ printed = NotPrinted
  /\ \/ \E c \in Coordinates : shape = Shape("Coordinate", c)
     \/ \E c \in Circles : shape = Shape("Circle", c)
     \/ \E b \in BoundingBoxes : shape = Shape("BoundingBox", b)
     \/ \E p \in Polygons : shape = Shape("Polygon", p)

NextGeo ==
  \/ CoordinateToString
  \/ CircleToString
  \/ BoundingBoxToString
  \/ PolygonToString

SpecGeo == InitGeo /\ [][NextGeo]_vars

(***************************************************************************)
(* Properties of the geometry serializations (under SpecGeo).              *)
(***************************************************************************)

\* C1: for a Polygon of N >= 3 coordinates, to_string returns N+1 coordinate
\* serializations joined by single commas, with no trailing comma: read back,
\* the fields between the commas are exactly the 2(N+1) numbers of the N
\* points in list order followed by the first point again.
C1_PolygonClosesRing ==
  (shape.kind = "Polygon" /\ printed.kind # "None"
     /\ Len(shape.val.coordinates) >= 3)
  => /\ printed.kind = "Ok"
     /\ ReadsAs(SplitOn(printed.str, ","),
                LatLngs(shape.val.coordinates
                          \o <<shape.val.coordinates[1]>>))

C1_Witness ==
  /\ shape.kind = "Polygon"
  /\ printed.kind = "Ok"
  /\ Len(shape.val.coordinates) >= 4
  /\ shape.val.coordinates[1]
       # shape.val.coordinates[Len(shape.val.coordinates)]

\* C8: for a BoundingBox, to_string reads back as the four numbers
\* south_west.latitude, south_west.longitude, north_east.latitude,
\* north_east.longitude, in that order.
C8_BoundingBoxSouthWestFirst ==
  (shape.kind = "BoundingBox" /\ printed.kind # "None")
  => /\ printed.kind = "Ok"
     /\ ReadsAs(SplitOn(printed.str, ","),
                LatLng(shape.val.south_west) \o LatLng(shape.val.north_east))

C8_Witness ==
  /\ shape.kind = "BoundingBox"
  /\ printed.kind = "Ok"
  /\ shape.val.south_west = COORDINATE1
  /\ shape.val.north_east = COORDINATE2

\* C9: for a Coordinate, to_string is the latitude, one comma, the longitude
\* and nothing else: read back, it is exactly two numerals denoting the
\* latitude and the longitude; Coordinate(50.12345, -3.98765) gives
\* "50.12345,-3.98765".
C9_CoordinateLatCommaLng ==
  (shape.kind = "Coordinate" /\ printed.kind # "None")
  => /\ printed.kind = "Ok"
     /\ ReadsAs(SplitOn(printed.str, ","), LatLng(shape.val))
     /\ shape.val = COORDINATE1
          => printed.str = << "5", "0", ".", "1", "2", "3", "4", "5", ",",
                              "-", "3", ".", "9", "8", "7", "6", "5" >>

C9_Witness ==
  /\ shape = Shape("Coordinate", COORDINATE1)
  /\ printed.kind = "Ok"

\* C10: for a Circle, to_string reads back as the three numbers latitude and
\* longitude of the centerpoint and then the radius.
C10_CircleCenterThenRadius ==
  (shape.kind = "Circle" /\ printed.kind # "None")
  => /\ printed.kind = "Ok"
     /\ ReadsAs(SplitOn(printed.str, ","),
                LatLng(shape.val.centerpoint) \o <<shape.val.radius>>)

C10_Witness ==
  /\ shape = Shape("Circle", Circle(COORDINATE1, Dec(12, 30000)))
  /\ printed.kind = "Ok"

(***************************************************************************)
(* Properties of the requested URL (under Spec).                           *)
(***************************************************************************)
ConvertTo3WAMethods ==
  {"convert_to_3wa", "convert_to_3wa_json", "convert_to_3wa_string"}

ConvertToCoordinatesMethods ==
  {"convert_to_coordinates", "convert_to_coordinates_json",
   "convert_to_coordinates_and_get_coordinate"}

AutoSuggestMethods == {"autosuggest", "autosuggest_json"}

GridSectionMethods == {"grid_section", "grid_section_json"}

\* the methods that take an options bag
OptionMethods ==
  ConvertTo3WAMethods \cup ConvertToCoordinatesMethods
    \cup AutoSuggestMethods \cup GridSectionMethods

\* the methods that return the response itself
EndpointMethods ==
  {"convert_to_3wa", "convert_to_coordinates", "available_languages",
   "autosuggest", "grid_section"}

\* the base URL of the running call: host, endpoint and required parameters
RequiredUrl ==
  CASE method \in ConvertTo3WAMethods ->
         host \o <<"/convert-to-3wa", "?", "key", "=">> \o api_key
           \o <<"&", "coordinates", "=">> \o Coordinate_to_string(args[1])
    [] method \in ConvertToCoordinatesMethods ->
         host \o <<"/convert-to-coordinates", "?", "words", "=">> \o args[1]
           \o <<"&", "key", "=">> \o api_key
    [] method \in AutoSuggestMethods ->
         host \o <<"/autosuggest", "?", "key", "=">> \o api_key
           \o <<"&", "input", "=">> \o args[1]
    [] method \in GridSectionMethods ->
         host \o <<"/grid-section", "?", "bounding-box", "=">>
           \o BoundingBox_to_string(args[1]) \o <<"&", "key", "=">> \o api_key

\* the query-string key of an options field
KeyOf(field) ==
  CASE field = "focus_coordinates" -> "focus"
    [] field = "circle" -> "clip-to-circle"
    [] field = "countries" -> "clip-to-country"
    [] field = "bounding_box" -> "clip-to-bounding-box"
    [] field = "polygon" -> "clip-to-polygon"
    [] field = "prefer_land" -> "prefer-land"
    [] OTHER -> field

RECURSIVE JoinComma(_)
JoinComma(strs) ==
  IF strs = <<>> THEN <<>>
  ELSE IF Len(strs) = 1 THEN strs[1]
       ELSE strs[1] \o <<",">> \o JoinComma(Tail(strs))

\* the value a present options field has in the query string
ValueOf(field, v) ==
  CASE field = "focus_coordinates" -> Coordinate_to_string(v)
    [] field = "circle" -> Circle_to_string(v)
    [] field = "countries" -> JoinComma(v)
    [] field = "bounding_box" -> BoundingBox_to_string(v)
    [] field = "polygon" -> Polygon_to_string(v).str
    [] field = "prefer_land" -> FmtBool(v)
    [] OTHER -> v

IsPrefix(p, str) == Len(p) <= Len(str) /\ SubSeq(str, 1, Len(p)) = p

\* the places of str where the segment "&key=" starts
SegmentStarts(str, key) ==
  { i \in 1..(Len(str) - 2) :
      str[i] = "&" /\ str[i + 1] = key /\ str[i + 2] = "=" }

Ampersands(str) == { i \in 1..Len(str) : str[i] = "&" }

\* str from place i up to the next "&" or the end
UpToAmpersand(str, i) ==
  LET rest == SubSeq(str, i, Len(str))
      j == FirstIdx(rest, "&")
  IN  IF j = 0 THEN rest ELSE SubSeq(rest, 1, j - 1)

AllAbsent(opts) == \A field \in DOMAIN opts : opts[field] = None

Present(opts) == { field \in DOMAIN opts : IsSome(opts[field]) }

Requested == pc = "waiting" /\ IsSome(inflight) /\ method \in OptionMethods

\* C2: when every field of the options bag of a call is absent, the URL that
\* is requested is exactly the base URL with the required parameters.
C2_AbsentOptionsAddNothing ==
  (Requested /\ AllAbsent(options)) => inflight = Some(RequiredUrl)

C2_Witness ==
  /\ Requested
  /\ method = "autosuggest"
  /\ options = AutoSuggestOptions_default

\* C3: the requested URL is the base URL followed by exactly one segment
\* &key=value for each options field that is present, with that field's
\* value, and by nothing else; and appending one more parameter to a URL
\* leaves the URL as a prefix of the result.
C3_OneSegmentPerPresentOption ==
  Requested =>
    LET url == inflight[1]
        rest == SubSeq(url, Len(RequiredUrl) + 1, Len(url))
    IN  /\ IsPrefix(RequiredUrl, url)
        /\ \A field \in DOMAIN options :
             LET starts == SegmentStarts(rest, KeyOf(field))
             IN  IF IsSome(options[field])
                 THEN /\ Cardinality(starts) = 1
                      /\ \A i \in starts :
                           UpToAmpersand(rest, i + 3)
                             = ValueOf(field, options[field][1])
                 ELSE starts = {}
        /\ Cardinality(Ampersands(rest)) = Cardinality(Present(options))
        /\ rest # <<>> => rest[1] = "&"
        /\ \A v \in {<<>>, <<"nl">>, <<"5", "1", ",", "4">>} :
             /\ IsPrefix(url, parse_url(url, "language", v))
             /\ Len(parse_url(url, "language", v)) = Len(url) + 3 + Len(v)

C3_Witness ==
  /\ Requested
  /\ method = "autosuggest"
  /\ Cardinality(Present(options)) = 8

(***************************************************************************)
(* Properties of the outcome of a call (under Spec).                       *)
(***************************************************************************)
\* the method has run to its end: it returned or it panicked
Finished == pc \in {"returned", "aborted"}

\* send() gave a response back (and no transport error)
GotResponse == IsSome(response) /\ response[1].kind = "Ok"

\* C4 (as amended): for every endpoint method, a response whose status is
\* in 400..599 is returned as an Err that carries that very response, and a
\* response with any other status (1xx, 2xx, 3xx, 6xx..) is returned as Ok
\* with that response.
C4_ErrorStatusIsErrOfResponse ==
  (Finished /\ method \in EndpointMethods /\ GotResponse)
  => LET resp == response[1].val
     IN  IF 400 <= resp.status /\ resp.status <= 599
         THEN result = Err(resp)
         ELSE result = Ok(resp)

C4_Witness ==
  /\ pc = "returned"
  /\ method = "grid_section"
  /\ GotResponse
  /\ response[1].val.status = 500
  /\ result = Err(response[1].val)

\* C4 (as claimed): for every endpoint method, a response whose status is
\* not 2xx is returned as an Err carrying the response, and a 2xx response
\* is returned as Ok.
C4_Claimed_Non2xxIsErr ==
  (Finished /\ method \in EndpointMethods /\ GotResponse)
  => LET resp == response[1].val
     IN  IF 200 <= resp.status /\ resp.status <= 299
         THEN result = Ok(resp)
         ELSE result = Err(resp)

\* the JSON body that was decoded, when the status check passed and the body
\* is JSON
Decoded ==
  /\ GotResponse
  /\ check_status_code(response[1].val).kind = "Ok"
  /\ response[1].val.body.valid

\* the field a projecting method reads is missing or has the wrong type
FieldUnusable ==
  LET json == response[1].val.body.json
  IN  \/ /\ method = "convert_to_3wa_string"
         /\ Index(json, "words").t # "string"
      \/ /\ method = "convert_to_coordinates_and_get_coordinate"
         /\ \/ Index(Index(json, "coordinates"), "lat").t # "number"
            \/ Index(Index(json, "coordinates"), "lng").t # "number"

\* C5: a field-projecting method (convert_to_3wa_string,
\* convert_to_coordinates_and_get_coordinate) never returns a successful
\* result when the field it projects is missing from the decoded JSON body
\* or has the wrong type.
C5_MissingFieldNeverOk ==
  (Finished /\ Decoded /\ FieldUnusable) => result.kind # "Ok"

\* an error happened in the call: a transport failure, an error status, a
\* body that is not JSON where JSON is decoded, or an unusable field
JsonMethods ==
  {"convert_to_3wa_json", "convert_to_3wa_string",
   "convert_to_coordinates_json", "convert_to_coordinates_and_get_coordinate",
   "available_languages_json", "autosuggest_json", "grid_section_json"}

ErrorHappened ==
  \/ IsSome(response) /\ response[1].kind = "Err"
  \/ GotResponse /\ check_status_code(response[1].val).kind = "Err"
  \/ /\ GotResponse
     /\ check_status_code(response[1].val).kind = "Ok"
     /\ method \in JsonMethods
     /\ ~response[1].val.body.valid
  \/ Decoded /\ FieldUnusable

\* C6: no call of a client method that has sent its GET aborts the program,
\* and every error of the call (transport failure, error status, body that
\* is not JSON, missing or wrongly typed field) is returned to the caller as
\* an Err value.
C6_ErrorsAreReturned ==
  (Finished /\ IsSome(response))
  => /\ result.kind # "Panic"
     /\ ErrorHappened => result.kind = "Err"

\* C7: every invocation of a public client method issues exactly one GET,
\* whatever its outcome.
C7_ExactlyOneGet == Finished => gets = 1

(***************************************************************************)
(* Properties of the endpoint, the key and the client configuration.       *)
(***************************************************************************)
\* the endpoint a method requests
EndpointOf(m) ==
  CASE m \in ConvertTo3WAMethods -> "/convert-to-3wa"
    [] m \in ConvertToCoordinatesMethods -> "/convert-to-coordinates"
    [] m \in AutoSuggestMethods -> "/autosuggest"
    [] m \in GridSectionMethods -> "/grid-section"
    [] m \in {"available_languages", "available_languages_json"} ->
         "/available-languages"

\* the values of the query-string parameter key among params, the
\* sequence of the key=value pieces of a query string
ValuesOf(params, key) ==
  { SubSeq(params[i], 3, Len(params[i])) :
      i \in { j \in 1..Len(params) :
                /\ Len(params[j]) >= 2
                /\ params[j][1] = key
                /\ params[j][2] = "=" } }

\* the required argument of the running call, as (parameter name, value)
RequiredParam ==
  CASE method \in ConvertTo3WAMethods ->
         <<"coordinates",
           FmtF64(args[1].latitude) \o <<",">> \o FmtF64(args[1].longitude)>>
    [] method \in ConvertToCoordinatesMethods -> <<"words", args[1]>>
    [] method \in AutoSuggestMethods -> <<"input", args[1]>>
    [] method \in GridSectionMethods ->
         <<"bounding-box",
           FmtF64(args[1].south_west.latitude) \o <<",">>
             \o FmtF64(args[1].south_west.longitude) \o <<",">>
             \o FmtF64(args[1].north_east.latitude) \o <<",">>
             \o FmtF64(args[1].north_east.longitude)>>

\* the URL of the GET that is being sent names the client's host, the
\* method's endpoint, the client's key and the method's required argument
UrlNamesEndpointAndKey ==
  (pc = "waiting" /\ IsSome(inflight))
  => LET url == inflight[1]
         h == Len(host)
         params == SplitOn(SubSeq(url, h + 3, Len(url)), "&")
     IN  /\ IsPrefix(host, url)
         /\ Len(url) >= h + 2
         /\ url[h + 1] = EndpointOf(method)
         /\ url[h + 2] = "?"
         /\ ValuesOf(params, "key") = {api_key}
         /\ method \in OptionMethods
              => ValuesOf(params, RequiredParam[1]) = {RequiredParam[2]}

\* C11: every endpoint method requests a URL that starts with the client's
\* current host followed by "/" and the method's endpoint name, and that has
\* the client's API key as the parameter `key` and the method's required
\* argument as its named parameter; and a client as W3WClient::new(key)
\* returns it has the host https://api.what3words.com/v3 and the key given.
C11_HostEndpointKeyArgument ==
  /\ host = <<"https://api.what3words.com/v3">>
  /\ api_key = args[1]
  /\ []UrlNamesEndpointAndKey

C11_Witness ==
  /\ pc = "waiting"
  /\ method = "grid_section"
  /\ host = <<"https://test.com">>
  /\ IsSome(options.format)

\* C12: no step of a client method call changes api_key or host, whatever
\* the outcome of the call (only an assignment to the public field host,
\* made between calls, does), and between calls nothing of an earlier call
\* is left that a later call could depend on.
C12_CallsLeaveConfiguration ==
  /\ [][(pc # "idle" \/ pc' # "idle")
          => (api_key' = api_key /\ host' = host)]_vars
  /\ [](pc = "idle"
          => (inflight = None /\ gets = 0 /\ response = None
                /\ result = NoResult /\ options = <<>>))

C12_Witness ==
  /\ pc = "returned"
  /\ method = "autosuggest_json"
  /\ result.kind = "Err"
  /\ host = <<"https://test.com">>

ParamOrder(m) ==
  CASE m \in AutoSuggestMethods ->
         << "key", "input", "focus", "clip-to-circle", "clip-to-country",
            "clip-to-bounding-box", "clip-to-polygon", "language",
            "prefer-land", "locale" >>
    [] m \in ConvertTo3WAMethods ->
         << "key", "coordinates", "language", "format", "locale" >>
    [] m \in ConvertToCoordinatesMethods ->
         << "words", "key", "format", "locale" >>
    [] m \in GridSectionMethods -> << "bounding-box", "key", "format" >>

\* C14: the parameters of a requested URL appear in a fixed order, whatever
\* options are present: in autosuggest key, input, then focus,
\* clip-to-circle, clip-to-country, clip-to-bounding-box, clip-to-polygon,
\* language, prefer-land, locale; in convert_to_3wa language, format, locale
\* after key and coordinates; in convert_to_coordinates format, locale
\* after words and key.  Every parameter of the URL is one of these.
C14_ParametersInFixedOrder ==
  Requested
  => LET url == inflight[1]
         order == ParamOrder(method)
         seps == { i \in 1..Len(url) : url[i] \in {"?", "&"} }
         Place(name) == CHOOSE a \in 1..Len(order) : order[a] = name
     IN  /\ \A i \in seps :
              /\ i + 2 <= Len(url)
              /\ url[i + 2] = "="
              /\ \E a \in 1..Len(order) : order[a] = url[i + 1]
         /\ \A i \in seps : \A j \in seps :
              i < j => Place(url[i + 1]) < Place(url[j + 1])

C14_Witness ==
  /\ Requested
  /\ method = "autosuggest_json"
  /\ Cardinality(Present(options)) = 8
  /\ host = <<"https://test.com">>

(***************************************************************************)
(* The size of a Polygon (under SpecGeo).                                  *)
(***************************************************************************)
\* C15: Polygon::to_string does not enforce the documented size: for every
\* polygon of N >= 1 coordinates (1 or 2 points and more than 25 points
\* included) it returns a string of exactly N+1 serialized points, the N
\* points and the first one again, and for a polygon without coordinates it
\* aborts (index out of bounds) and returns nothing.
C15_PolygonSizeNotEnforced ==
  (shape.kind = "Polygon" /\ printed.kind # "None")
  => LET cs == shape.val.coordinates
         fields == SplitOn(printed.str, ",")
     IN  IF cs = <<>>
         THEN printed.kind = "Panic"
         ELSE /\ printed.kind = "Ok"
              /\ Len(fields) = 2 * (Len(cs) + 1)
              /\ ReadsAs(SubSeq(fields, 1, 2 * Len(cs)), LatLngs(cs))
              /\ ReadsAs(SubSeq(fields, 2 * Len(cs) + 1, Len(fields)),
                         LatLng(cs[1]))

C15_Witness ==
  /\ shape = Shape("Polygon", Polygon(<<>>))
  /\ printed.kind = "Panic"

====
